---- MODULE Spec2Model ----
(***************************************************************************)
(* Folder tree generator (Folder_Tree_Claude_shorter.py).                  *)
(*                                                                         *)
(* A FolderTreeGenerator object holds a style table, an icon table,        *)
(* max_depth, max_files_per_folder, tree_lines and stats.  generate_tree   *)
(* resets tree_lines and stats, emits the root line and walks the          *)
(* directory with the recursive _build_tree.  The recursion is modelled    *)
(* with an explicit call stack, one step per directory entry, so that the  *)
(* intermediate values of tree_lines and stats are states of the model.    *)
(*                                                                         *)
(* Strings that the code inspects (file names, exclude patterns,           *)
(* extensions) are sequences of one-character strings; strings that the    *)
(* code only copies (glyphs, icons) are TLA+ strings.  A path is the       *)
(* sequence of the names leading to it; <<>> is the top of the modelled    *)
(* file system.  Python's None is the empty sequence and a value v that    *)
(* may be None is <<v>>.                                                   *)
(***************************************************************************)
EXTENDS Integers, Sequences, FiniteSets, TLC

VARIABLES
    fs,                     \* the file system the run works on: a name of FileSystem
    cli,                    \* TRUE: the run is main(); FALSE: a caller uses the class
    pc,                     \* where the caller is
    exit_code,              \* sys.exit status of main(), -1 while running
    style,                  \* self.style: the entry of TreeStyle.STYLES it refers to
    icon_set,               \* self.icon_set: the attribute of FileTypeIcons it refers to
    max_depth,              \* self.max_depth
    max_files_per_folder,   \* self.max_files_per_folder
    tree_lines,             \* self.tree_lines
    stats,                  \* self.stats
    call,                   \* the arguments of the current / last generate_tree call
    stack,                  \* the active _build_tree frames, innermost last
    rendered,               \* what the renderers have written, in order
    prev,                   \* history: result of the preceding call when it had the same arguments
    fmt                     \* a format_size call on its own: its argument, locals and result

vars == <<fs, cli, pc, exit_code, style, icon_set, max_depth, max_files_per_folder,
          tree_lines, stats, call, stack, rendered, prev, fmt>>

None == <<>>
Some(v) == <<v>>

-----------------------------------------------------------------------------
(* Bounds of the model *)

\* largest max_depth a generator is constructed with
MaxDepthBound == 3
\* largest max_files_per_folder a generator is constructed with
MaxFilesBound == 2

-----------------------------------------------------------------------------
(* Characters and strings *)

\* ord() of the characters that occur in the modelled names
Ord ==
    "." :> 46 @@ "A" :> 65 @@ "B" :> 66 @@ "D" :> 68 @@ "E" :> 69 @@ "H" :> 72 @@
    "a" :> 97 @@ "b" :> 98 @@ "c" :> 99 @@ "d" :> 100 @@ "e" :> 101 @@ "g" :> 103 @@
    "h" :> 104 @@ "i" :> 105 @@ "k" :> 107 @@ "l" :> 108 @@ "m" :> 109 @@ "n" :> 110 @@
    "o" :> 111 @@ "p" :> 112 @@ "r" :> 114 @@ "s" :> 115 @@ "t" :> 116 @@ "x" :> 120 @@
    "y" :> 121

Alphabet == DOMAIN Ord

\* str.lower() on one character: A-Z move to a-z, everything else stays
LowerChar(c) ==
    IF Ord[c] >= 65 /\ Ord[c] <= 90
    THEN CHOOSE d \in Alphabet : Ord[d] = Ord[c] + 32
    ELSE c

\* str.lower()
Lower(s) == [i \in 1..Len(s) |-> LowerChar(s[i])]

\* s < t for Python strings: code-point lexicographic order
StrLess(s, t) ==
    \E k \in 1..(Len(t)) :
        /\ \A j \in 1..(k - 1) : j <= Len(s) /\ s[j] = t[j]
        /\ \/ k = Len(s) + 1
           \/ k <= Len(s) /\ Ord[s[k]] < Ord[t[k]]

\* s.startswith(p)
StartsWith(s, p) == Len(p) <= Len(s) /\ SubSeq(s, 1, Len(p)) = p

\* p in s, for strings: p occurs as a contiguous substring of s
Contains(p, s) ==
    \E i \in 0..(Len(s) - Len(p)) : SubSeq(s, i + 1, i + Len(p)) = p

\* str.rfind('.') as a 0-based index, -1 when there is no dot
RFindDot(s) ==
    IF \E i \in 1..Len(s) : s[i] = "."
    THEN (CHOOSE i \in 1..Len(s) : s[i] = "." /\ \A j \in (i + 1)..Len(s) : s[j] # ".") - 1
    ELSE -1

\* pathlib PurePath.suffix: the part from the last dot on, unless the dot is
\* the first or the last character of the name
Suffix(name) ==
    LET i == RFindDot(name)
    IN  IF 0 < i /\ i < Len(name) - 1 THEN SubSeq(name, i + 1, Len(name)) ELSE <<>>

\* SliceTo with the slice forgotten: every file is displayed
SliceTo_All(seq, n) == seq

\* seq[:n] of Python, n any integer
SliceTo(seq, n) ==
    IF n >= 0
    THEN SubSeq(seq, 1, IF n < Len(seq) THEN n ELSE Len(seq))
    ELSE SubSeq(seq, 1, IF Len(seq) + n > 0 THEN Len(seq) + n ELSE 0)

\* truth value of an Optional[int]: None and 0 are false
TruthyInt(o) == o # None /\ o[1] # 0

\* truth value of an Optional[Set]: None and the empty set are false
TruthySet(o) == o # None /\ o[1] # {}

-----------------------------------------------------------------------------
(* Names, extensions and the fixed tables of the program.  A glyph is      *)
(* written with the code points of its characters: "<U+251C><U+2500> " is  *)
(* the box-drawing tee, the box-drawing dash and a space.                  *)

n_src == <<"s", "r", "c">>
n_lib == <<"l", "i", "b">>
n_cache == <<"c", "a", "c", "h", "e">>
n_git == <<".", "g", "i", "t">>
n_HEAD == <<"H", "E", "A", "D">>
n_sock == <<"s", "o", "c", "k">>
n_a_py == <<"a", ".", "p", "y">>
n_b_py == <<"b", ".", "p", "y">>
n_B_py == <<"B", ".", "p", "y">>
n_c_py == <<"c", ".", "p", "y">>
n_e_py == <<"e", ".", "p", "y">>
n_d_md == <<"d", ".", "m", "d">>
n_notes_md == <<"n", "o", "t", "e", "s", ".", "m", "d">>
\* name of the directory at the top of the modelled file system
n_top == <<"d", "e", "m", "o">>

e_txt == <<".", "t", "x", "t">>
e_md == <<".", "m", "d">>
e_pdf == <<".", "p", "d", "f">>
e_doc == <<".", "d", "o", "c">>
e_docx == <<".", "d", "o", "c", "x">>
e_rtf == <<".", "r", "t", "f">>
e_odt == <<".", "o", "d", "t">>
e_py == <<".", "p", "y">>
e_js == <<".", "j", "s">>
e_html == <<".", "h", "t", "m", "l">>
e_css == <<".", "c", "s", "s">>
e_php == <<".", "p", "h", "p">>
e_java == <<".", "j", "a", "v", "a">>
e_cpp == <<".", "c", "p", "p">>
e_c == <<".", "c">>
e_cs == <<".", "c", "s">>
e_rb == <<".", "r", "b">>
e_jpg == <<".", "j", "p", "g">>
e_png == <<".", "p", "n", "g">>
e_zip == <<".", "z", "i", "p">>

k_folder == <<"f", "o", "l", "d", "e", "r">>
k_key_folder == <<"k", "e", "y", "_", "f", "o", "l", "d", "e", "r">>
k_file == <<"f", "i", "l", "e">>
k_unknown == <<"u", "n", "k", "n", "o", "w", "n">>

\* dict.get(key, default)
DictGet(d, key, default) == IF key \in DOMAIN d THEN d[key] ELSE default

\* FileTypeIcons.ARTISANAL (the entries for the extensions listed above)
ARTISANAL ==
    e_txt :> "<U+1F4C4>" @@ e_md :> "<U+1F4DD>" @@ e_pdf :> "<U+1F4C4>" @@
    e_doc :> "<U+1F4C3>" @@ e_docx :> "<U+1F4C3>" @@ e_rtf :> "<U+1F4C4>" @@
    e_odt :> "<U+1F4C4>" @@ e_jpg :> "<U+1F5BC><U+FE0F>" @@ e_png :> "<U+1F5BC><U+FE0F>" @@
    e_py :> "<U+1F40D>" @@ e_js :> "<U+1F4DC>" @@ e_html :> "<U+1F310>" @@
    e_css :> "<U+1F3A8>" @@ e_php :> "<U+1F418>" @@ e_java :> "<U+2615>" @@
    e_cpp :> "<U+2699><U+FE0F>" @@ e_c :> "<U+2699><U+FE0F>" @@ e_cs :> "<U+1F537>" @@
    e_rb :> "<U+1F48E>" @@ e_zip :> "<U+1F5DC><U+FE0F>" @@
    k_folder :> "<U+1F4C1>" @@ k_key_folder :> "<U+1F4C2>" @@
    k_file :> "<U+1F4C4>" @@ k_unknown :> "<U+2753>"

\* FileTypeIcons.SIMPLE (the entries for the extensions listed above)
SIMPLE ==
    e_txt :> "T" @@ e_md :> "M" @@ e_pdf :> "P" @@ e_doc :> "D" @@ e_docx :> "D" @@
    e_jpg :> "I" @@ e_png :> "I" @@
    e_py :> "P" @@ e_js :> "J" @@ e_html :> "H" @@ e_css :> "C" @@
    e_zip :> "Z" @@
    k_folder :> "+" @@ k_file :> "-" @@ k_unknown :> "?"

\* FileTypeIcons.PROFESSIONAL (the entries for the extensions listed above)
PROFESSIONAL ==
    e_txt :> "[TXT]" @@ e_md :> "[MD]" @@ e_pdf :> "[PDF]" @@ e_doc :> "[DOC]" @@
    e_docx :> "[DOC]" @@ e_jpg :> "[IMG]" @@ e_png :> "[IMG]" @@
    e_py :> "[PY]" @@ e_js :> "[JS]" @@ e_html :> "[HTM]" @@ e_css :> "[CSS]" @@
    e_zip :> "[ZIP]" @@
    k_folder :> "[DIR]" @@ k_file :> "[   ]" @@ k_unknown :> "[?]"

\* the attributes of class FileTypeIcons that hold an icon table
FileTypeIcons ==
    "ARTISANAL" :> ARTISANAL @@ "SIMPLE" :> SIMPLE @@ "PROFESSIONAL" :> PROFESSIONAL

\* str.upper() on the icon-set names a generator is constructed with
Upper ==
    "simple" :> "SIMPLE" @@ "professional" :> "PROFESSIONAL" @@
    "artisanal" :> "ARTISANAL" @@ "emoji" :> "EMOJI"

\* TreeStyle.STYLES
STYLES ==
    "simple" :>
        [vertical |-> "<U+2502> ", horizontal |-> "<U+2500> ",
         junction |-> "<U+251C><U+2500> ", corner |-> "<U+2514><U+2500> ", space |-> "  "] @@
    "professional" :>
        [vertical |-> "<U+2502> ", horizontal |-> "<U+2500> ",
         junction |-> "<U+251C><U+2500> ", corner |-> "<U+2514><U+2500> ", space |-> "  "] @@
    "artisanal" :>
        [vertical |-> "<U+2502> ", horizontal |-> "<U+2500> ",
         junction |-> "<U+251C><U+2500> ", corner |-> "<U+2514><U+2500> ", space |-> "  "] @@
    "ascii" :>
        [vertical |-> "| ", horizontal |-> "- ",
         junction |-> "+- ", corner |-> "+- ", space |-> "  "]

\* self.file_categories (documents and code in full, the others abridged)
file_categories ==
    "documents" :> {e_txt, e_md, e_pdf, e_doc, e_docx, e_rtf, e_odt} @@
    "images" :> {e_jpg, e_png} @@
    "code" :> {e_py, e_js, e_html, e_css, e_php, e_java, e_cpp, e_c, e_cs, e_rb} @@
    "archives" :> {e_zip}

\* key_dirs of is_key_directory (the names over the model's alphabet that matter here)
key_dirs ==
    {n_src, n_lib, <<"d", "a", "t", "a">>, <<"d", "o", "c", "s">>, <<"t", "e", "s", "t", "s">>,
     <<"b", "i", "n">>, <<"a", "p", "p">>, <<"a", "p", "i">>}

\* FolderTreeGenerator.is_key_directory
is_key_directory(dir_name) == Lower(dir_name) \in key_dirs

-----------------------------------------------------------------------------
(* The file system.  A file system maps each existing path to              *)
(*   type     "dir", "file" or "other" (a socket, a dangling link),        *)
(*   size     st_size,                                                     *)
(*   listing  "ok", or the exception that listing the directory raises,    *)
(*   order    the child names in the order iterdir() yields them.          *)

Dir(order) == [type |-> "dir", size |-> 0, listing |-> "ok", order |-> order]
File(size) == [type |-> "file", size |-> size, listing |-> "ok", order |-> <<>>]
Other == [type |-> "other", size |-> 0, listing |-> "ok", order |-> <<>>]

\* an empty directory
FS_Empty == <<>> :> Dir(<<>>)

\* src/ holding a.py, b.py, c.py, and notes.md
FS_Scenario ==
    <<>> :> Dir(<<n_notes_md, n_src>>) @@
    <<n_src>> :> Dir(<<n_c_py, n_a_py, n_b_py>>) @@
    <<n_src, n_a_py>> :> File(10) @@
    <<n_src, n_b_py>> :> File(1536) @@
    <<n_src, n_c_py>> :> File(300) @@
    <<n_notes_md>> :> File(2048)

\* four levels, a hidden directory, a socket, an upper-case name
FS_Full ==
    <<>> :> Dir(<<n_sock, n_notes_md, n_git, n_src>>) @@
    <<n_src>> :> Dir(<<n_c_py, n_lib, n_a_py, n_B_py>>) @@
    <<n_src, n_a_py>> :> File(10) @@
    <<n_src, n_B_py>> :> File(1536) @@
    <<n_src, n_c_py>> :> File(0) @@
    <<n_src, n_lib>> :> Dir(<<n_d_md, n_cache>>) @@
    <<n_src, n_lib, n_d_md>> :> File(1280) @@
    <<n_src, n_lib, n_cache>> :> Dir(<<n_e_py>>) @@
    <<n_src, n_lib, n_cache, n_e_py>> :> File(1048575) @@
    <<n_notes_md>> :> File(2048) @@
    <<n_git>> :> Dir(<<n_HEAD>>) @@
    <<n_git, n_HEAD>> :> File(23) @@
    <<n_sock>> :> Other

\* FS_Full with a directory that cannot be listed
FS_Locked(d, error) == [FS_Full EXCEPT ![d].listing = error]

\* the file systems of the model, by name
FileSystem ==
    "empty" :> FS_Empty @@
    "scenario" :> FS_Scenario @@
    "full" :> FS_Full @@
    "denied" :> FS_Locked(<<n_src, n_lib>>, "PermissionError") @@
    "broken" :> FS_Locked(<<n_src, n_lib>>, "OSError")

\* Path.exists()
exists(f, path) == path \in DOMAIN f

\* Path.is_dir()
is_dir(f, path) == exists(f, path) /\ f[path].type = "dir"

\* Path.is_file()
is_file(f, path) == exists(f, path) /\ f[path].type = "file"

\* Path.name
name_of(path) == IF path = <<>> THEN n_top ELSE path[Len(path)]

\* Path.iterdir() as a list; the caller has checked that the listing succeeds
iterdir(f, path) == [i \in 1..Len(f[path].order) |-> Append(path, f[path].order[i])]

\* does list(directory.iterdir()) raise OSError / PermissionError
\* (NotADirectoryError, an OSError, when the path is no directory)
iterdir_fails(f, path) == ~is_dir(f, path) \/ f[path].listing # "ok"

\* FolderTreeGenerator.get_file_size
get_file_size(f, path) == IF is_file(f, path) THEN f[path].size ELSE 0

\* is path strictly below the directory d
Below(path, d) == Len(path) > Len(d) /\ SubSeq(path, 1, Len(d)) = d

-----------------------------------------------------------------------------
(* Pure methods of FolderTreeGenerator *)

size_names == <<"B", "KB", "MB", "GB", "TB">>

RECURSIVE Pow1024(_)
Pow1024(i) == IF i = 0 THEN 1 ELSE 1024 * Pow1024(i - 1)

\* the number of times the while loop of format_size divides by 1024
RECURSIVE Divisions(_, _)
Divisions(size_bytes, i) ==
    IF size_bytes \div Pow1024(i) >= 1024 /\ i < Len(size_names) - 1
    THEN Divisions(size_bytes, i + 1)
    ELSE i

\* f"{x:.1f}" of the exact quotient n / d: the number of tenths, ties to even.
\* 10 * n is never formed, so that the intermediate values stay small.
Tenths(n, d) ==
    LET q == n \div d
        r == n % d
        e == IF d = 1 THEN 1 ELSE d \div 1024
        w == IF d = 1 THEN 1 ELSE 1024
        a == r \div e
        b == r % e
        c == (10 * b) \div e
        low == (10 * b) % e
        t == (10 * a + c) \div w
        rem == ((10 * a + c) % w) * e + low
        down == 10 * q + t
    IN  IF rem + rem > d THEN down + 1
        ELSE IF rem + rem = d /\ down % 2 = 1 THEN down + 1
        ELSE down

\* FolderTreeGenerator.format_size: whole and tenth are the digits before and
\* after the decimal point; "0 B" has no decimal point
format_size(size_bytes) ==
    IF size_bytes = 0
    THEN [whole |-> 0, tenth |-> None, unit |-> "B"]
    ELSE LET i == Divisions(size_bytes, 0)
             t == Tenths(size_bytes, Pow1024(i))
         IN  [whole |-> t \div 10, tenth |-> Some(t % 10), unit |-> size_names[i + 1]]

\* FolderTreeGenerator.get_file_icon
get_file_icon(f, icons, file_path, is_key_folder) ==
    IF is_dir(f, file_path)
    THEN IF is_key_folder
         THEN DictGet(FileTypeIcons[icons], k_key_folder, "<U+1F4C2>")
         ELSE DictGet(FileTypeIcons[icons], k_folder, "<U+1F4C1>")
    ELSE LET ext == Lower(Suffix(name_of(file_path)))
         IN  DictGet(FileTypeIcons[icons], ext,
                     DictGet(FileTypeIcons[icons], k_file, "<U+1F4C4>"))

\* should_include_file with the category test before the exclude patterns
should_include_file_CategoryFirst(f, file_path, include_categories, exclude_patterns) ==
    IF TruthySet(include_categories) /\ ~is_dir(f, file_path)
    THEN LET ext == Lower(Suffix(name_of(file_path)))
         IN  \E category \in include_categories[1] :
                 ext \in DictGet(file_categories, category, {})
    ELSE ~(TruthySet(exclude_patterns)
           /\ \E pattern \in exclude_patterns[1] : Contains(pattern, name_of(file_path)))

\* should_include_file with the category test applied to directories too
should_include_file_DirsByCategory(f, file_path, include_categories, exclude_patterns) ==
    IF TruthySet(exclude_patterns)
       /\ \E pattern \in exclude_patterns[1] : Contains(pattern, name_of(file_path))
    THEN FALSE
    ELSE IF TruthySet(include_categories)
         THEN LET ext == Lower(Suffix(name_of(file_path)))
              IN  \E category \in include_categories[1] :
                      ext \in DictGet(file_categories, category, {})
         ELSE TRUE

\* FolderTreeGenerator.should_include_file
should_include_file(f, file_path, include_categories, exclude_patterns) ==
    IF TruthySet(exclude_patterns)
       /\ \E pattern \in exclude_patterns[1] : Contains(pattern, name_of(file_path))
    THEN FALSE
    ELSE IF TruthySet(include_categories) /\ ~is_dir(f, file_path)
         THEN LET ext == Lower(Suffix(name_of(file_path)))
              IN  \E category \in include_categories[1] :
                      ext \in DictGet(file_categories, category, {})
         ELSE TRUE

\* [e for e in seq if keep[e]], keep a set
RECURSIVE Filter(_, _)
Filter(seq, keep) ==
    IF seq = <<>> THEN <<>>
    ELSE IF Head(seq) \in keep
         THEN <<Head(seq)>> \o Filter(Tail(seq), keep)
         ELSE Filter(Tail(seq), keep)

\* the sort key of line 273 / 275 compared with <
KeyLess(f, sort_dirs_first, x, y) ==
    IF sort_dirs_first
    THEN \/ ~is_file(f, x) /\ is_file(f, y)
         \/ /\ is_file(f, x) = is_file(f, y)
            /\ StrLess(Lower(name_of(x)), Lower(name_of(y)))
    ELSE StrLess(Lower(name_of(x)), Lower(name_of(y)))

\* list.sort(key=...): stable, entries with equal keys keep their order
RECURSIVE SortEntries(_, _, _)
SortEntries(f, sort_dirs_first, seq) ==
    IF seq = <<>> THEN <<>>
    ELSE LET n == Len(seq)
             x == seq[n]
             done == SortEntries(f, sort_dirs_first, SubSeq(seq, 1, n - 1))
             k == Cardinality({i \in 1..Len(done) : ~KeyLess(f, sort_dirs_first, x, done[i])})
         IN  SubSeq(done, 1, k) \o <<x>> \o SubSeq(done, k + 1, Len(done))

-----------------------------------------------------------------------------
(* One level of _build_tree: lines 260-293 *)

\* the entries of a directory after the hidden and should_include_file
\* filters and the sort (lines 261-275); c holds the arguments of the call
SortedEntries(f, directory, c) ==
    LET entries == iterdir(f, directory)
        all == {entries[i] : i \in 1..Len(entries)}
        shown == IF ~c.show_hidden
                 THEN {e \in all : ~StartsWith(name_of(e), <<".">>)}
                 ELSE all
        kept == {e \in shown :
                    should_include_file(f, e, c.include_categories, c.exclude_patterns)}
    IN  SortEntries(f, c.sort_dirs_first, Filter(entries, kept))

\* lines 277-293: directories, files, the file limit and entries_to_show
Level(f, directory, c, max_files) ==
    LET entries == SortedEntries(f, directory, c)
        all == {entries[i] : i \in 1..Len(entries)}
        directories == Filter(entries, {e \in all : is_dir(f, e)})
        files == Filter(entries, {e \in all : is_file(f, e)})
        files_truncated == TruthyInt(max_files) /\ Len(files) > max_files[1]
        displayed_files == IF files_truncated THEN SliceTo(files, max_files[1]) ELSE files
    IN  [files |-> files,
         files_truncated |-> files_truncated,
         hidden_count |-> IF files_truncated THEN Len(files) - max_files[1] ELSE 0,
         entries_to_show |-> directories \o displayed_files]

(* Lines of tree_lines.  A line is the record of the pieces that the        *)
(* f-strings concatenate:                                                  *)
(*   prefix  the glyphs before the icon, the corner or junction last,      *)
(*   icon, name, slash ("/" after the name), size (the " (...)" suffix),   *)
(*   more    the hidden_count of a truncation line,                        *)
(* and, for reference only, kind ("root", "entry", "more") and the path    *)
(* of the entry (of the directory, for a truncation line).                 *)

\* can root.rglob('*') reach the path: every directory from the root down to
\* its parent can be listed (rglob skips a directory that raises PermissionError)
Reachable(f, root, path) ==
    /\ Below(path, root)
    /\ \A k \in Len(root)..(Len(path) - 1) : f[SubSeq(path, 1, k)].listing = "ok"

\* does the sum of line 239 raise: rglob lets an OSError other than
\* PermissionError through
RglobRaises(f, root) ==
    \E d \in DOMAIN f :
        /\ is_dir(f, d)
        /\ d = root \/ Reachable(f, root, d)
        /\ f[d].listing = "OSError"

RECURSIVE SumSizes(_, _)
SumSizes(f, paths) ==
    IF paths = {} THEN 0
    ELSE LET p == CHOOSE q \in paths : TRUE
         IN  f[p].size + SumSizes(f, paths \ {p})

\* line 239: the size of every file under the root, whatever the depth
RootTotal(f, root) ==
    SumSizes(f, {p \in DOMAIN f : is_file(f, p) /\ Reachable(f, root, p)})

\* lines 235-242: the root line
RootLine(f, icons, c) ==
    [kind |-> "root", path |-> c.root_path, prefix |-> <<>>,
     icon |-> get_file_icon(f, icons, c.root_path, TRUE),
     name |-> name_of(c.root_path), slash |-> TRUE, more |-> 0,
     size |-> IF c.show_size /\ is_dir(f, c.root_path) /\ ~RglobRaises(f, c.root_path)
              THEN Some(format_size(RootTotal(f, c.root_path)))
              ELSE None]

\* lines 306-320: the line of an entry
EntryLine(f, icons, c, entry, current_prefix) ==
    [kind |-> "entry", path |-> entry, prefix |-> current_prefix,
     icon |-> get_file_icon(f, icons, entry,
                 IF is_dir(f, entry) THEN is_key_directory(name_of(entry)) ELSE FALSE),
     name |-> name_of(entry), slash |-> is_dir(f, entry), more |-> 0,
     size |-> IF ~is_dir(f, entry) /\ c.show_size
              THEN Some(format_size(get_file_size(f, entry)))
              ELSE None]

\* lines 331-332: the truncation line
TruncationLine(directory, truncation_prefix, hidden_count) ==
    [kind |-> "more", path |-> directory, prefix |-> truncation_prefix,
     icon |-> "", name |-> <<>>, slash |-> FALSE, more |-> hidden_count,
     size |-> None]

-----------------------------------------------------------------------------
(* Construction and the inputs of the model *)

\* TreeStyle.STYLES.get(style, TreeStyle.STYLES['simple']), line 142
ResolveStyle(style_name) == IF style_name \in DOMAIN STYLES THEN style_name ELSE "simple"

\* getattr(FileTypeIcons, icon_set.upper(), FileTypeIcons.SIMPLE), line 143
ResolveIcons(icon_name) ==
    IF Upper[icon_name] \in DOMAIN FileTypeIcons THEN Upper[icon_name] ELSE "SIMPLE"

\* line 147 and line 228
ZeroStats == [folders |-> 0, files |-> 0, total_size |-> 0, truncated_folders |-> 0]

StyleNames == {"simple", "professional", "artisanal", "ascii", "neon"}
IconNames == DOMAIN Upper
Depths == 1..MaxDepthBound
MaxFiles == {None} \cup {Some(n) : n \in (-1)..MaxFilesBound}
RootPaths == {<<>>, <<n_notes_md>>}
Categories == {None, Some({"code"}), Some({"documents", "images"})}
Patterns == {None, Some({<<"a">>})}

\* the arguments of a generate_tree call
CallArgs ==
    [root_path : RootPaths, show_size : BOOLEAN, show_hidden : BOOLEAN,
     sort_dirs_first : BOOLEAN, include_categories : Categories,
     exclude_patterns : Patterns]

\* the arguments of the current / last call
Args == call[1]

\* a frame of _build_tree that has just been called
Frame(directory, prefix, depth) ==
    [at |-> "call", directory |-> directory, prefix |-> prefix, depth |-> depth,
     entries_to_show |-> <<>>, i |-> 0, files_truncated |-> FALSE, hidden_count |-> 0]

Top == stack[Len(stack)]

\* a return of _build_tree: the innermost frame ends
Return(frames) == SubSeq(frames, 1, Len(frames) - 1)

\* DepthReached off by one: depth > self.max_depth
DepthReached_Late(depth, limit) == depth > limit

\* line 257: depth >= self.max_depth
DepthReached(depth, limit) == depth >= limit

\* RootExists with the check left out
RootExists_Unchecked(f, root) == TRUE

\* line 231: root.exists()
RootExists(f, root) == exists(f, root)

\* FreshLines with the reset left out
FreshLines_Kept(old) == old

\* line 227: self.tree_lines = []
FreshLines(old) == <<>>

\* line 228: self.stats = {...}
FreshStats(old) == ZeroStats

\* AfterAccessError with the error not caught: it ends every active call
AfterAccessError_Uncaught(frames) == <<>>

\* lines 260-263: what is left of the call stack when the listing of a
\* directory raises: the error is caught and this call returns
AfterAccessError(frames) == Return(frames)

\* the file system of the run
Disk == FileSystem[fs]

-----------------------------------------------------------------------------
(* The state after construction (library use), or at the start of main()  *)
(* with the parsed command line (cli).                                     *)

\* the defaults of __init__, line 141
DefaultStyle == "simple"
DefaultIcons == "simple"
DefaultMaxDepth == 3

\* the generators of the model: every max_depth and max_files_per_folder with
\* the default style and icons, and every style and icon set with the default
\* max_depth, without and with a file limit
Constructions ==
    [style : {DefaultStyle}, icon_set : {DefaultIcons},
     max_depth : Depths, max_files_per_folder : MaxFiles]
    \cup
    [style : StyleNames, icon_set : IconNames,
     max_depth : {DefaultMaxDepth}, max_files_per_folder : {None, Some(1)}]

\* lines 141-147
Constructed(k) ==
    /\ style = ResolveStyle(k.style)
    /\ icon_set = ResolveIcons(k.icon_set)
    /\ max_depth = k.max_depth
    /\ max_files_per_folder = k.max_files_per_folder
    /\ tree_lines = <<>>
    /\ stats = ZeroStats

\* a caller has constructed a generator
InitLibrary ==
    /\ cli = FALSE
    /\ \E k \in Constructions : Constructed(k)
    /\ pc = "idle"
    /\ call = None

\* main() starts with the parsed command line: here the defaults of the
\* options of the generator (lines 474-479, 491) and any path and flags
InitMain ==
    /\ cli = TRUE
    /\ Constructed([style |-> DefaultStyle, icon_set |-> DefaultIcons,
                    max_depth |-> DefaultMaxDepth, max_files_per_folder |-> None])
    /\ pc = "main"
    /\ \E c \in CallArgs : call = Some(c)

Init ==
    /\ fs \in DOMAIN FileSystem
    /\ InitLibrary \/ InitMain
    /\ exit_code = -1
    /\ stack = <<>>
    /\ rendered = None
    /\ prev = None
    /\ fmt = None

-----------------------------------------------------------------------------
(* main() *)

\* lines 502-504: the path does not exist
Main_PathMissing ==
    /\ pc = "main"
    /\ ~exists(Disk, Args.root_path)
    /\ pc' = "exited"
    /\ exit_code' = 1
    /\ UNCHANGED <<fmt, fs, cli, style, icon_set, max_depth, max_files_per_folder,
                   tree_lines, stats, call, stack, rendered, prev>>

\* lines 502-512: the path exists, the generator is created
Main_Create ==
    /\ pc = "main"
    /\ exists(Disk, Args.root_path)
    /\ pc' = "created"
    /\ tree_lines' = <<>>
    /\ stats' = ZeroStats
    /\ UNCHANGED <<fmt, fs, cli, exit_code, style, icon_set, max_depth, max_files_per_folder,
                   call, stack, rendered, prev>>

\* lines 527-551: the tree is saved or printed, then the statistics are printed
Main_Output(format) ==
    /\ cli /\ pc = "returned"
    /\ rendered' = Some([format |-> format, lines |-> tree_lines, stats |-> stats])
    /\ pc' = "exited"
    /\ exit_code' = 0
    /\ UNCHANGED <<fmt, fs, cli, style, icon_set, max_depth, max_files_per_folder,
                   tree_lines, stats, call, stack, prev>>

\* lines 373-374 and 417-418: the imaging or document library is missing
Main_ImportError(format) ==
    /\ cli /\ pc = "returned"
    /\ format \in {"png", "pdf"}
    /\ pc' = "raised"
    /\ UNCHANGED <<fmt, fs, cli, exit_code, style, icon_set, max_depth, max_files_per_folder,
                   tree_lines, stats, call, stack, rendered, prev>>

\* lines 553-555
Main_Except ==
    /\ cli /\ pc = "raised"
    /\ pc' = "exited"
    /\ exit_code' = 1
    /\ UNCHANGED <<fmt, fs, cli, style, icon_set, max_depth, max_files_per_folder,
                   tree_lines, stats, call, stack, rendered, prev>>

\* a caller of the class catches the FileNotFoundError of generate_tree
Caller_Except ==
    /\ ~cli /\ pc = "raised"
    /\ pc' = "caught"
    /\ UNCHANGED <<fmt, fs, cli, exit_code, style, icon_set, max_depth, max_files_per_folder,
                   tree_lines, stats, call, stack, rendered, prev>>

-----------------------------------------------------------------------------
(* generate_tree *)

\* may generate_tree be called with the arguments c
CanCall(c) ==
    \/ cli /\ pc = "created" /\ c = Args
    \/ ~cli /\ pc \in {"idle", "returned", "caught"}

\* the history of the call that starts: what the preceding call left, when
\* that call had the same arguments
History(c) ==
    IF pc \in {"returned", "caught"} /\ call = Some(c)
    THEN Some([tree_lines |-> tree_lines, stats |-> stats, pc |-> pc])
    ELSE None

\* lines 227-232: the root path does not exist
GenerateTree_NotFound(c) ==
    /\ CanCall(c)
    /\ tree_lines' = FreshLines(tree_lines)
    /\ stats' = FreshStats(stats)
    /\ ~RootExists(Disk, c.root_path)
    /\ call' = Some(c)
    /\ prev' = History(c)
    /\ pc' = "raised"
    /\ UNCHANGED <<fmt, fs, cli, exit_code, style, icon_set, max_depth, max_files_per_folder,
                   stack, rendered>>

\* lines 227-249: reset, the root line, the call of _build_tree on the root
GenerateTree_Root(c) ==
    /\ CanCall(c)
    /\ RootExists(Disk, c.root_path)
    /\ tree_lines' = Append(FreshLines(tree_lines), RootLine(Disk, icon_set, c))
    /\ stats' = [FreshStats(stats) EXCEPT !.folders = @ + 1]
    /\ call' = Some(c)
    /\ prev' = History(c)
    /\ stack' = <<Frame(c.root_path, <<>>, 0)>>
    /\ pc' = "running"
    /\ UNCHANGED <<fmt, fs, cli, exit_code, style, icon_set, max_depth, max_files_per_folder,
                   rendered>>

\* line 251: _build_tree on the root has returned
GenerateTree_Return ==
    /\ pc = "running"
    /\ stack = <<>>
    /\ pc' = "returned"
    /\ UNCHANGED <<fmt, fs, cli, exit_code, style, icon_set, max_depth, max_files_per_folder,
                   tree_lines, stats, call, stack, rendered, prev>>

-----------------------------------------------------------------------------
(* _build_tree, one step of the innermost frame at a time *)

\* lines 257-258
BuildTree_DepthStop ==
    /\ pc = "running" /\ stack # <<>>
    /\ Top.at = "call"
    /\ DepthReached(Top.depth, max_depth)
    /\ stack' = Return(stack)
    /\ UNCHANGED <<fmt, fs, cli, pc, exit_code, style, icon_set, max_depth,
                   max_files_per_folder, tree_lines, stats, call, rendered, prev>>

\* lines 260-263
BuildTree_AccessError ==
    /\ pc = "running" /\ stack # <<>>
    /\ Top.at = "call"
    /\ ~DepthReached(Top.depth, max_depth)
    /\ iterdir_fails(Disk, Top.directory)
    /\ stack' = AfterAccessError(stack)
    /\ UNCHANGED <<fmt, fs, cli, pc, exit_code, style, icon_set, max_depth,
                   max_files_per_folder, tree_lines, stats, call, rendered, prev>>

\* lines 260-293
BuildTree_List ==
    /\ pc = "running" /\ stack # <<>>
    /\ Top.at = "call"
    /\ ~DepthReached(Top.depth, max_depth)
    /\ ~iterdir_fails(Disk, Top.directory)
    /\ LET level == Level(Disk, Top.directory, Args, max_files_per_folder)
       IN  /\ stats' = IF level.files_truncated
                       THEN [stats EXCEPT !.truncated_folders = @ + 1]
                       ELSE stats
           /\ stack' = [stack EXCEPT ![Len(stack)] =
                           [@ EXCEPT !.at = "loop", !.i = 1,
                                     !.entries_to_show = level.entries_to_show,
                                     !.files_truncated = level.files_truncated,
                                     !.hidden_count = level.hidden_count]]
    /\ UNCHANGED <<fmt, fs, cli, pc, exit_code, style, icon_set, max_depth,
                   max_files_per_folder, tree_lines, call, rendered, prev>>

\* lines 295-327 with is_last_entry of line 296 taken without
\* "and not files_truncated"
BuildTree_Entry_MarkerIgnored ==
    /\ pc = "running" /\ stack # <<>>
    /\ Top.at = "loop"
    /\ Top.i <= Len(Top.entries_to_show)
    /\ LET entry == Top.entries_to_show[Top.i]
           is_last_entry == Top.i = Len(Top.entries_to_show)
           current_prefix == IF is_last_entry
                             THEN Append(Top.prefix, STYLES[style].corner)
                             ELSE Append(Top.prefix, STYLES[style].junction)
           next_prefix == IF is_last_entry
                          THEN Append(Top.prefix, STYLES[style].space)
                          ELSE Append(Top.prefix, STYLES[style].vertical)
           advanced == [stack EXCEPT ![Len(stack)].i = @ + 1]
       IN  /\ tree_lines' = Append(tree_lines,
                                   EntryLine(Disk, icon_set, Args, entry, current_prefix))
           /\ stats' = IF is_dir(Disk, entry)
                       THEN [stats EXCEPT !.folders = @ + 1]
                       ELSE [stats EXCEPT !.files = @ + 1,
                                          !.total_size = @ + get_file_size(Disk, entry)]
           /\ stack' = IF is_dir(Disk, entry)
                       THEN Append(advanced, Frame(entry, next_prefix, Top.depth + 1))
                       ELSE advanced
    /\ UNCHANGED <<fmt, fs, cli, pc, exit_code, style, icon_set, max_depth,
                   max_files_per_folder, call, rendered, prev>>

\* lines 295-327: one iteration of the loop, up to the recursive call
BuildTree_Entry ==
    /\ pc = "running" /\ stack # <<>>
    /\ Top.at = "loop"
    /\ Top.i <= Len(Top.entries_to_show)
    /\ LET entry == Top.entries_to_show[Top.i]
           is_last_entry == Top.i = Len(Top.entries_to_show) /\ ~Top.files_truncated
           current_prefix == IF is_last_entry
                             THEN Append(Top.prefix, STYLES[style].corner)
                             ELSE Append(Top.prefix, STYLES[style].junction)
           next_prefix == IF is_last_entry
                          THEN Append(Top.prefix, STYLES[style].space)
                          ELSE Append(Top.prefix, STYLES[style].vertical)
           advanced == [stack EXCEPT ![Len(stack)].i = @ + 1]
       IN  /\ tree_lines' = Append(tree_lines,
                                   EntryLine(Disk, icon_set, Args, entry, current_prefix))
           /\ stats' = IF is_dir(Disk, entry)
                       THEN [stats EXCEPT !.folders = @ + 1]
                       ELSE [stats EXCEPT !.files = @ + 1,
                                          !.total_size = @ + get_file_size(Disk, entry)]
           /\ stack' = IF is_dir(Disk, entry)
                       THEN Append(advanced, Frame(entry, next_prefix, Top.depth + 1))
                       ELSE advanced
    /\ UNCHANGED <<fmt, fs, cli, pc, exit_code, style, icon_set, max_depth,
                   max_files_per_folder, call, rendered, prev>>

\* lines 329-333: after the loop
BuildTree_End ==
    /\ pc = "running" /\ stack # <<>>
    /\ Top.at = "loop"
    /\ Top.i > Len(Top.entries_to_show)
    /\ tree_lines' =
           IF Top.files_truncated
           THEN LET truncation_prefix ==
                        IF Len(Top.entries_to_show) > 0
                        THEN Append(Top.prefix, STYLES[style].corner)
                        ELSE Append(Top.prefix, STYLES[style].junction)
                IN  Append(tree_lines,
                           TruncationLine(Top.directory, truncation_prefix, Top.hidden_count))
           ELSE tree_lines
    /\ stack' = Return(stack)
    /\ UNCHANGED <<fmt, fs, cli, pc, exit_code, style, icon_set, max_depth,
                   max_files_per_folder, stats, call, rendered, prev>>

-----------------------------------------------------------------------------

Next ==
    \/ Main_PathMissing
    \/ Main_Create
    \/ \E format \in {"text", "png", "pdf", "console"} : Main_Output(format)
    \/ \E format \in {"png", "pdf"} : Main_ImportError(format)
    \/ Main_Except
    \/ Caller_Except
    \/ \E c \in CallArgs : GenerateTree_NotFound(c)
    \/ \E c \in CallArgs : GenerateTree_Root(c)
    \/ GenerateTree_Return
    \/ BuildTree_DepthStop
    \/ BuildTree_AccessError
    \/ BuildTree_List
    \/ BuildTree_Entry
    \/ BuildTree_End

Spec == Init /\ [][Next]_vars

-----------------------------------------------------------------------------
(* generate_tree as a function of the file system, the generator and the   *)
(* arguments: the recursion of _build_tree written as a recursion.  g is   *)
(* [f, icon_set, style, max_depth, max_files_per_folder, c].               *)

AddStats(a, b) ==
    [folders |-> a.folders + b.folders, files |-> a.files + b.files,
     total_size |-> a.total_size + b.total_size,
     truncated_folders |-> a.truncated_folders + b.truncated_folders]

RECURSIVE WalkDirectory(_, _, _, _)
RECURSIVE WalkEntries(_, _, _, _, _)

\* lines 253-333: the lines and the statistics that one call of _build_tree adds
WalkDirectory(g, directory, prefix, depth) ==
    IF DepthReached(depth, g.max_depth) \/ iterdir_fails(g.f, directory)
    THEN [lines |-> <<>>, stats |-> ZeroStats]
    ELSE LET level == Level(g.f, directory, g.c, g.max_files_per_folder)
             loop == WalkEntries(g, level, prefix, depth, 1)
             truncation_prefix ==
                 IF Len(level.entries_to_show) > 0
                 THEN Append(prefix, STYLES[g.style].corner)
                 ELSE Append(prefix, STYLES[g.style].junction)
         IN  IF level.files_truncated
             THEN [lines |-> Append(loop.lines,
                                    TruncationLine(directory, truncation_prefix,
                                                   level.hidden_count)),
                   stats |-> [loop.stats EXCEPT !.truncated_folders = @ + 1]]
             ELSE loop

\* lines 295-327: the iterations i, i + 1, ... of the loop
WalkEntries(g, level, prefix, depth, i) ==
    IF i > Len(level.entries_to_show)
    THEN [lines |-> <<>>, stats |-> ZeroStats]
    ELSE LET entry == level.entries_to_show[i]
             is_last_entry == i = Len(level.entries_to_show) /\ ~level.files_truncated
             current_prefix == IF is_last_entry
                               THEN Append(prefix, STYLES[g.style].corner)
                               ELSE Append(prefix, STYLES[g.style].junction)
             next_prefix == IF is_last_entry
                            THEN Append(prefix, STYLES[g.style].space)
                            ELSE Append(prefix, STYLES[g.style].vertical)
             line == EntryLine(g.f, g.icon_set, g.c, entry, current_prefix)
             own == IF is_dir(g.f, entry)
                    THEN [ZeroStats EXCEPT !.folders = 1]
                    ELSE [ZeroStats EXCEPT !.files = 1,
                                           !.total_size = get_file_size(g.f, entry)]
             below == IF is_dir(g.f, entry)
                      THEN WalkDirectory(g, entry, next_prefix, depth + 1)
                      ELSE [lines |-> <<>>, stats |-> ZeroStats]
             rest == WalkEntries(g, level, prefix, depth, i + 1)
         IN  [lines |-> <<line>> \o below.lines \o rest.lines,
              stats |-> AddStats(own, AddStats(below.stats, rest.stats))]

\* lines 222-251: what generate_tree leaves in tree_lines and stats when the root exists
TreeOf(g) ==
    LET walk == WalkDirectory(g, g.c.root_path, <<>>, 0)
    IN  [lines |-> <<RootLine(g.f, g.icon_set, g.c)>> \o walk.lines,
         stats |-> AddStats([ZeroStats EXCEPT !.folders = 1], walk.stats)]

\* the generator of the run on the file system f with the arguments c
Generator(f, c) ==
    [f |-> f, icon_set |-> icon_set, style |-> style, max_depth |-> max_depth,
     max_files_per_folder |-> max_files_per_folder, c |-> c]

-----------------------------------------------------------------------------
(* Properties *)

Root == Args.root_path
Lines == 1..Len(tree_lines)
DirLines == {i \in Lines : tree_lines[i].kind = "entry" /\ tree_lines[i].slash}
FileLines == {i \in Lines : tree_lines[i].kind = "entry" /\ ~tree_lines[i].slash}
MoreLines == {i \in Lines : tree_lines[i].kind = "more"}

\* the directory that holds the entry of a line
Parent(path) == SubSeq(path, 1, Len(path) - 1)

\* how far below the root a line is drawn; a truncation line is drawn among
\* the children of its directory
Nesting(line) ==
    IF line.kind = "more" THEN Len(line.path) + 1 - Len(Root) ELSE Len(line.path) - Len(Root)

\* generate_tree has returned and tree_lines and stats hold its result
Returned == pc = "returned"

HiddenName(name) == name # <<>> /\ name[1] = "."
ExcludedName(name) ==
    /\ Args.exclude_patterns # None
    /\ \E pattern \in Args.exclude_patterns[1] : Contains(pattern, name)

\* the directories on which _build_tree got as far as listing the entries
Visited ==
    {d \in DOMAIN Disk :
        /\ d = Root \/ \E i \in DirLines : tree_lines[i].path = d
        /\ Len(d) - Len(Root) < max_depth
        /\ ~iterdir_fails(Disk, d)}

\* the files of a directory that survive the filters
SurvivingFiles(d) ==
    {e \in DOMAIN Disk :
        /\ Len(e) = Len(d) + 1 /\ Parent(e) = d
        /\ is_file(Disk, e)
        /\ Args.show_hidden \/ ~HiddenName(name_of(e))
        /\ should_include_file(Disk, e, Args.include_categories, Args.exclude_patterns)}

\* the folders of the run whose file list exceeds the limit N >= 0
OverLimit ==
    {d \in Visited :
        /\ max_files_per_folder # None
        /\ max_files_per_folder[1] >= 0
        /\ max_files_per_folder[1] < Cardinality(SurvivingFiles(d))}

\* C1: when generate_tree has returned, every visited folder with K surviving
\* files and a limit N, 0 <= N < K, has exactly N file lines, followed by
\* exactly one truncation line, which states K - N, and truncated_folders
\* counts exactly these folders.
TruncationLaw ==
    Returned =>
        /\ \A d \in OverLimit :
              LET files == {i \in FileLines : Parent(tree_lines[i].path) = d}
                  markers == {i \in MoreLines : tree_lines[i].path = d}
              IN  /\ Cardinality(files) = max_files_per_folder[1]
                  /\ Cardinality(markers) = 1
                  /\ \A m \in markers :
                        /\ tree_lines[m].more =
                               Cardinality(SurvivingFiles(d)) - max_files_per_folder[1]
                        /\ \A i \in files : i < m
        /\ max_files_per_folder # None /\ max_files_per_folder[1] >= 0
               => stats.truncated_folders = Cardinality(OverLimit)

\* every line other than the root line is drawn 1 to max_depth levels below
\* the root, with a prefix of that many glyphs
DepthBoundLines ==
    \A i \in Lines :
        tree_lines[i].kind # "root" =>
            /\ Nesting(tree_lines[i]) >= 1
            /\ Nesting(tree_lines[i]) <= max_depth
            /\ Len(tree_lines[i].prefix) = Nesting(tree_lines[i])

\* a step of a _build_tree frame called with depth >= max_depth is its return
DepthBoundStep ==
    (pc = "running" /\ stack # <<>> /\ Top.at = "call" /\ Top.depth >= max_depth)
        => (tree_lines' = tree_lines /\ stats' = stats /\ stack' = Return(stack))

\* C2: in every state no line other than the root line is drawn more than
\* max_depth levels below the root (with max_depth = 1, no line of a
\* grandchild); and a _build_tree call with depth >= max_depth returns
\* without changing tree_lines or stats.
DepthBound == []DepthBoundLines /\ [][DepthBoundStep]_vars

\* C2 witness: a run with max_depth = 1 has returned and has drawn a
\* directory that holds entries, none of which was drawn.
DepthBoundWitness ==
    /\ Returned /\ max_depth = 1
    /\ \E i \in DirLines : Disk[tree_lines[i].path].order # <<>>

\* C3: in every state, no line is drawn for an entry below the root whose
\* name, or the name of a directory between the root and it, contains an
\* exclude pattern, whatever the inclusion categories; and the statistics
\* count the drawn entries only.
ExclusionWins ==
    /\ \A i \in Lines :
          tree_lines[i].kind # "root" =>
              \A k \in (Len(Root) + 1)..Len(tree_lines[i].path) :
                  ~ExcludedName(tree_lines[i].path[k])
    /\ tree_lines # <<>> =>
          /\ stats.files = Cardinality(FileLines)
          /\ stats.folders = 1 + Cardinality(DirLines)

\* C3 witness: a run with the exclude pattern "a" and the category code has
\* returned; it has drawn src/c.py, and src/a.py, a code file, exists.
ExclusionWinsWitness ==
    /\ Returned
    /\ Args.exclude_patterns = Some({<<"a">>})
    /\ Args.include_categories = Some({"code"})
    /\ <<n_src, n_a_py>> \in DOMAIN Disk
    /\ \E i \in FileLines : tree_lines[i].path = <<n_src, n_c_py>>

\* the subdirectories that survive the hidden and exclude filters and are
\* reached through surviving, listable directories, at most max_depth below
\* the root
VisibleDirs ==
    {d \in DOMAIN Disk :
        /\ is_dir(Disk, d) /\ Below(d, Root)
        /\ Len(d) - Len(Root) <= max_depth
        /\ \A k \in (Len(Root) + 1)..Len(d) :
              /\ Args.show_hidden \/ ~HiddenName(d[k])
              /\ ~ExcludedName(d[k])
        /\ \A k \in Len(Root)..(Len(d) - 1) : ~iterdir_fails(Disk, SubSeq(d, 1, k))}

\* C4: when generate_tree has returned, the directory lines are one for
\* each visible subdirectory and no others, and stats.folders is 1 plus
\* their number.
DirectoryCount ==
    Returned =>
        /\ \A d \in VisibleDirs : Cardinality({i \in DirLines : tree_lines[i].path = d}) = 1
        /\ \A i \in DirLines : tree_lines[i].path \in VisibleDirs
        /\ Cardinality(DirLines) = Cardinality(VisibleDirs)
        /\ stats.folders = 1 + Cardinality(VisibleDirs)

\* C4 witness: a run has returned with at least three directory lines while
\* some subdirectory below the root is not visible.
DirectoryCountWitness ==
    /\ Returned
    /\ Cardinality(DirLines) >= 3
    /\ \E d \in DOMAIN Disk : is_dir(Disk, d) /\ Below(d, Root) /\ d \notin VisibleDirs

\* C5: when generate_tree has returned from an existing empty directory,
\* tree_lines is the root line alone and the statistics are folders 1,
\* files 0, total_size 0, truncated_folders 0.
EmptyDirectory ==
    (Returned /\ is_dir(Disk, Root) /\ Disk[Root].listing = "ok" /\ Disk[Root].order = <<>>)
        => /\ Len(tree_lines) = 1
           /\ tree_lines[1].kind = "root"
           /\ stats = [folders |-> 1, files |-> 0, total_size |-> 0, truncated_folders |-> 0]


\* C6: a call that follows a call with the same arguments leaves the same
\* tree_lines and stats as that call did; and whatever calls went before,
\* a call that returns leaves TreeOf of the file system, the generator and
\* its arguments, and a call that raises leaves no lines and zero statistics.
Idempotence ==
    /\ (pc \in {"returned", "caught"} /\ prev # None) =>
           /\ tree_lines = prev[1].tree_lines
           /\ stats = prev[1].stats
           /\ pc = prev[1].pc
    /\ Returned =>
           /\ tree_lines = TreeOf(Generator(Disk, Args)).lines
           /\ stats = TreeOf(Generator(Disk, Args)).stats
    /\ (~cli /\ pc \in {"raised", "caught"}) =>
           /\ tree_lines = <<>>
           /\ stats = ZeroStats

\* C6 witness: the second of two calls with the same arguments has returned
\* with directory, file and truncation lines.
IdempotenceWitness ==
    /\ Returned /\ prev # None
    /\ DirLines # {} /\ FileLines # {} /\ MoreLines # {}

\* the run of the scenario has returned: src/ holding a.py, b.py, c.py, and
\* notes.md; max_depth 3, a limit of 2 files, directories first, no filters
ScenarioRun ==
    /\ Returned
    /\ fs = "scenario" /\ Root = <<>>
    /\ max_depth = 3 /\ max_files_per_folder = Some(2)
    /\ Args.sort_dirs_first
    /\ Args.include_categories = None /\ Args.exclude_patterns = None

\* C7: the run of the scenario leaves six lines: the root, src/ with the
\* junction, two lines of .py files of src, the truncation line of src
\* stating 1 more file, notes.md with the corner at the top level; and
\* folders 2, files 3, truncated_folders 1.
Scenario ==
    ScenarioRun =>
        /\ Len(tree_lines) = 6
        /\ tree_lines[1].kind = "root"
        /\ tree_lines[2].kind = "entry" /\ tree_lines[2].path = <<n_src>>
        /\ tree_lines[2].slash
        /\ tree_lines[2].prefix = <<STYLES[style].junction>>
        /\ \A i \in {3, 4} :
              /\ tree_lines[i].kind = "entry" /\ ~tree_lines[i].slash
              /\ Parent(tree_lines[i].path) = <<n_src>>
              /\ Suffix(tree_lines[i].name) = e_py
              /\ Len(tree_lines[i].prefix) = 2
        /\ tree_lines[3].path # tree_lines[4].path
        /\ tree_lines[5].kind = "more" /\ tree_lines[5].path = <<n_src>>
        /\ tree_lines[5].more = 1
        /\ Len(tree_lines[5].prefix) = 2
        /\ tree_lines[6].kind = "entry" /\ tree_lines[6].name = n_notes_md
        /\ tree_lines[6].prefix = <<STYLES[style].corner>>
        /\ stats.folders = 2 /\ stats.files = 3 /\ stats.truncated_folders = 1

\* C7 witness: the run of the scenario has returned, in a style whose
\* junction and corner differ.
ScenarioWitness == ScenarioRun /\ STYLES[style].junction # STYLES[style].corner

\* C8: while the root path of the call (of the command line, for main) does
\* not exist, tree_lines is empty, the statistics are zero, no _build_tree
\* frame is active and nothing has been rendered; the call has raised, or
\* main has not started or has exited with status 1.
NotFound ==
    (call # None /\ ~exists(Disk, Root)) =>
        /\ tree_lines = <<>>
        /\ stats = ZeroStats
        /\ stack = <<>>
        /\ rendered = None
        /\ IF cli
           THEN pc \in {"main", "exited"} /\ (pc = "exited" => exit_code = 1)
           ELSE pc \in {"raised", "caught"}

\* C8 witness: a generate_tree call on a path that does not exist has raised.
NotFoundWitness == ~cli /\ pc = "raised" /\ call # None /\ ~exists(Disk, Root)

\* the file system with the directory d empty and listable
Emptied(f, d) ==
    [p \in {q \in DOMAIN f : ~Below(q, d)} |-> IF p = d THEN Dir(<<>>) ELSE f[p]]

\* the directories below the root whose listing fails
Unlistable == {d \in DOMAIN Disk : is_dir(Disk, d) /\ Below(d, Root) /\ Disk[d].listing # "ok"}

\* C9: when generate_tree has returned and the listing of a directory below
\* the root fails, the directory has its line when it is visible, no line is
\* drawn for anything beneath it, and the lines after the root line are, in
\* the same order, those that the same run draws outside the directory when
\* the directory is empty; folders, files and total_size are those of that run.
AccessRecovery ==
    Returned =>
        \A d \in Unlistable :
            LET expected == TreeOf(Generator(Emptied(Disk, d), Args))
                Outside(line) == ~(line.kind = "more" /\ line.path = d)
            IN  /\ Tail(tree_lines) = SelectSeq(Tail(expected.lines), Outside)
                /\ stats.folders = expected.stats.folders
                /\ stats.files = expected.stats.files
                /\ stats.total_size = expected.stats.total_size
                /\ \A i \in Lines :
                      /\ ~Below(tree_lines[i].path, d)
                      /\ tree_lines[i].kind = "more" => tree_lines[i].path # d
                /\ d \in VisibleDirs => \E i \in DirLines : tree_lines[i].path = d

\* C9 witness: a run has returned that has drawn a directory whose listing
\* fails and, after it, a file of the directory that holds it.
AccessRecoveryWitness ==
    /\ Returned
    /\ \E d \in Unlistable :
          \E i \in DirLines, j \in FileLines :
              /\ tree_lines[i].path = d
              /\ Parent(tree_lines[j].path) = Parent(d)
              /\ i < j

\* icon is the glyph that the active icon set itself holds under key
OwnGlyph(key, icon) ==
    key \in DOMAIN FileTypeIcons[icon_set] /\ icon = FileTypeIcons[icon_set][key]

\* C10: in every state, a directory line carries the key_folder glyph of
\* the active icon set when the directory is a key directory and the folder
\* glyph of that set otherwise, and the root line carries the key_folder
\* glyph of the active set.
DirectoryIcons ==
    /\ \A i \in DirLines :
          IF is_key_directory(tree_lines[i].name)
          THEN OwnGlyph(k_key_folder, tree_lines[i].icon)
          ELSE OwnGlyph(k_folder, tree_lines[i].icon)
    /\ \A i \in Lines :
          tree_lines[i].kind = "root" => OwnGlyph(k_key_folder, tree_lines[i].icon)

-----------------------------------------------------------------------------
(* format_size on its own.  A byte count may exceed the integers of the    *)
(* model checker, so here a number is the sequence of its base-1024        *)
(* digits, least significant first, without a leading zero digit; zero is  *)
(* the empty sequence.  A Python float is such a number of at most 53      *)
(* significant bits together with the number of digits behind the point:   *)
(* a division by 1024.0 moves the point and is exact.                      *)

MaxDigits == 6

\* the digits the byte counts are made of
DigitSamples == {0, 1, 256, 512, 1023}

ByteCounts ==
    {<<>>} \cup {x \in UNION {[1..n -> DigitSamples] : n \in 1..MaxDigits} : x[Len(x)] # 0}

RECURSIVE Pow2(_)
Pow2(k) == IF k = 0 THEN 1 ELSE 2 * Pow2(k - 1)

\* the number of bits of a digit, and of a number
BitLen(v) == CHOOSE b \in 0..10 : v < Pow2(b) /\ (b = 0 \/ Pow2(b - 1) <= v)
Bits(x) == IF x = <<>> THEN 0 ELSE BitLen(x[Len(x)]) + 10 * (Len(x) - 1)

\* x + v * 1024^(j-1)
RECURSIVE AddAt(_, _, _)
AddAt(x, j, v) ==
    IF v = 0 THEN x
    ELSE IF j > Len(x) THEN Append(x, v)
    ELSE LET s == x[j] + v
         IN  AddAt([x EXCEPT ![j] = s % 1024], j + 1, s \div 1024)

\* the conversion of an int to a float: the nearest number of 53 significant
\* bits, a tie going to the even one
ToFloat(x) ==
    LET drop == Bits(x) - 53
    IN  IF drop <= 0 THEN x
        ELSE LET q == drop \div 10
                 r == drop % 10
                 cut == x[q + 1]
                 low == cut % Pow2(r)
                 rest(n) == IF \A j \in 1..n : x[j] = 0 THEN 0 ELSE 1
                 cmp == IF r > 0
                        THEN IF low > Pow2(r - 1) THEN 1
                             ELSE IF low < Pow2(r - 1) THEN -1
                             ELSE rest(q)
                        ELSE IF x[q] > 512 THEN 1
                             ELSE IF x[q] < 512 THEN -1
                             ELSE rest(q - 1)
                 odd == (cut \div Pow2(r)) % 2 = 1
                 kept == [j \in 1..Len(x) |->
                             IF j <= q THEN 0 ELSE IF j = q + 1 THEN cut - low ELSE x[j]]
             IN  IF cmp = 1 \/ (cmp = 0 /\ odd) THEN AddAt(kept, q + 1, Pow2(r)) ELSE kept

\* an int as the value of the local size_bytes
IntValue(x) == [digits |-> x, point |-> 0]

\* line 199: size_bytes >= 1024 and i < len(size_names) - 1
LoopContinues(size_bytes, i) ==
    Len(size_bytes.digits) - size_bytes.point >= 2 /\ i < Len(size_names) - 1

\* line 200: size_bytes /= 1024.0
Divide(size_bytes) ==
    [digits |-> ToFloat(size_bytes.digits), point |-> size_bytes.point + 1]

\* the integer part of a float, an integer of the model checker
RECURSIVE Whole(_, _)
Whole(digits, point) ==
    IF Len(digits) <= point THEN 0
    ELSE digits[point + 1] + 1024 * Whole(digits, point + 1)

\* ten times the part behind the point: its digits behind the point, with
\* the part before the point as the topmost
RECURSIVE TimesTen(_, _)
TimesTen(frac, carry) ==
    IF frac = <<>> THEN <<carry>>
    ELSE LET s == 10 * frac[1] + carry
         IN  <<s % 1024>> \o TimesTen(Tail(frac), s \div 1024)

\* line 203 with the digits behind the first decimal cut off
Format1f_Truncated(size_bytes, unit) ==
    LET value == ToFloat(size_bytes.digits)
        k == size_bytes.point
        frac == [j \in 1..k |-> IF j <= Len(value) THEN value[j] ELSE 0]
    IN  [whole |-> Whole(value, k), tenth |-> Some(TimesTen(frac, 0)[k + 1]), unit |-> unit]

\* line 203: f"{size_bytes:.1f} {unit}": the nearest tenth, a tie going to
\* the even one
Format1f(size_bytes, unit) ==
    LET value == ToFloat(size_bytes.digits)
        k == size_bytes.point
        frac == [j \in 1..k |-> IF j <= Len(value) THEN value[j] ELSE 0]
        ten == TimesTen(frac, 0)
        d == ten[k + 1]
        half == IF k = 0 THEN -1
                ELSE IF ten[k] > 512 THEN 1
                ELSE IF ten[k] < 512 THEN -1
                ELSE IF \A j \in 1..(k - 1) : ten[j] = 0 THEN 0 ELSE 1
        up == half = 1 \/ (half = 0 /\ d % 2 = 1)
        t == IF up THEN d + 1 ELSE d
    IN  [whole |-> Whole(value, k) + t \div 10, tenth |-> Some(t % 10), unit |-> unit]

\* a format_size call with its argument
FormatCall(x) ==
    [pc |-> "called", arg |-> x, size_bytes |-> IntValue(x), i |-> 0, result |-> None]

\* lines 194-195
FormatSize_Zero ==
    /\ fmt # None /\ fmt.pc = "called"
    /\ fmt.arg = <<>>
    /\ fmt' = [fmt EXCEPT !.pc = "returned",
                          !.result = Some([whole |-> 0, tenth |-> None, unit |-> "B"])]
    /\ UNCHANGED <<fs, cli, pc, exit_code, style, icon_set, max_depth, max_files_per_folder,
                   tree_lines, stats, call, stack, rendered, prev>>

\* lines 194, 197-198
FormatSize_Enter ==
    /\ fmt # None /\ fmt.pc = "called"
    /\ fmt.arg # <<>>
    /\ fmt' = [fmt EXCEPT !.pc = "loop", !.i = 0]
    /\ UNCHANGED <<fs, cli, pc, exit_code, style, icon_set, max_depth, max_files_per_folder,
                   tree_lines, stats, call, stack, rendered, prev>>

\* lines 199-201
FormatSize_Divide ==
    /\ fmt # None /\ fmt.pc = "loop"
    /\ LoopContinues(fmt.size_bytes, fmt.i)
    /\ fmt' = [fmt EXCEPT !.size_bytes = Divide(fmt.size_bytes), !.i = fmt.i + 1]
    /\ UNCHANGED <<fs, cli, pc, exit_code, style, icon_set, max_depth, max_files_per_folder,
                   tree_lines, stats, call, stack, rendered, prev>>

\* lines 199, 203
FormatSize_Return ==
    /\ fmt # None /\ fmt.pc = "loop"
    /\ ~LoopContinues(fmt.size_bytes, fmt.i)
    /\ fmt' = [fmt EXCEPT !.pc = "returned",
                          !.result = Some(Format1f(fmt.size_bytes, size_names[fmt.i + 1]))]
    /\ UNCHANGED <<fs, cli, pc, exit_code, style, icon_set, max_depth, max_files_per_folder,
                   tree_lines, stats, call, stack, rendered, prev>>

\* a generator with the defaults of the constructor, on which format_size
\* is called with any byte count
InitFormat ==
    /\ fs = "empty"
    /\ cli = FALSE
    /\ Constructed([style |-> DefaultStyle, icon_set |-> DefaultIcons,
                    max_depth |-> DefaultMaxDepth, max_files_per_folder |-> None])
    /\ pc = "idle"
    /\ call = None
    /\ exit_code = -1
    /\ stack = <<>>
    /\ rendered = None
    /\ prev = None
    /\ \E x \in ByteCounts : fmt = FormatCall(x)

NextFormat ==
    \/ FormatSize_Zero
    \/ FormatSize_Enter
    \/ FormatSize_Divide
    \/ FormatSize_Return

SpecFormat == InitFormat /\ [][NextFormat]_vars

-----------------------------------------------------------------------------
(* Properties of format_size *)

\* arithmetic of numbers given by their digits
RECURSIVE Number(_)
Number(n) == IF n = 0 THEN <<>> ELSE <<n % 1024>> \o Number(n \div 1024)

RECURSIVE TimesFrom(_, _, _)
TimesFrom(x, k, carry) ==
    IF x = <<>> THEN Number(carry)
    ELSE LET s == k * x[1] + carry
         IN  <<s % 1024>> \o TimesFrom(Tail(x), k, s \div 1024)

Times(x, k) == IF k = 0 THEN <<>> ELSE TimesFrom(x, k, 0)

RECURSIVE PlusFrom(_, _, _)
PlusFrom(x, y, j) == IF j > Len(y) THEN x ELSE PlusFrom(AddAt(x, j, y[j]), y, j + 1)

Plus(x, y) == PlusFrom(x, y, 1)

\* x * 1024^u
Shift(x, u) == IF x = <<>> THEN <<>> ELSE [j \in 1..u |-> 0] \o x

LessEq(x, y) ==
    \/ Len(x) < Len(y)
    \/ /\ Len(x) = Len(y)
       /\ \/ x = y
          \/ \E j \in 1..Len(x) :
                /\ x[j] < y[j]
                /\ \A h \in (j + 1)..Len(x) : x[h] = y[h]

FormatReturned == fmt # None /\ fmt.pc = "returned"

\* the position of the unit of a result among B, KB, MB, GB, TB, from 0
UnitOf(r) == CHOOSE u \in 0..(Len(size_names) - 1) : size_names[u + 1] = r.unit

\* r shows x / 1024^u with one decimal place: no number of tenths is nearer
OneDecimal(x, u, r) ==
    /\ r.tenth # None
    /\ LET shown == Shift(AddAt(Times(Number(r.whole), 10), 1, r.tenth[1]), u)
           unit == Shift(<<1>>, u)
       IN  /\ LessEq(Times(x, 20), Plus(Times(shown, 2), unit))
           /\ LessEq(Times(shown, 2), Plus(Times(x, 20), unit))

\* u is the unit in which x is at least 1 (or is B) and below 1024
UnitFits(x, u) == Len(x) <= u + 1 /\ (u = 0 \/ Len(x) >= u + 1)

Examples ==
    /\ fmt.arg = <<512, 1>> =>
          fmt.result[1] = [whole |-> 1, tenth |-> Some(5), unit |-> "KB"]
    /\ fmt.arg = <<0, 0, 0, 1>> =>
          fmt.result[1] = [whole |-> 1, tenth |-> Some(0), unit |-> "GB"]

\* C11 as stated: format_size(0) is "0 B"; for every positive byte count the
\* unit is the one among B, KB, MB, GB, TB in which the scaled value is below
\* 1024, and the scaled value is shown with one decimal place; 1536 gives
\* "1.5 KB" and 1073741824 gives "1.0 GB".
FormatLaw ==
    FormatReturned =>
        LET x == fmt.arg
            r == fmt.result[1]
        IN  /\ x = <<>> => r = [whole |-> 0, tenth |-> None, unit |-> "B"]
            /\ x # <<>> => UnitFits(x, UnitOf(r)) /\ OneDecimal(x, UnitOf(r), r)
            /\ Examples

\* C11: format_size(0) is "0 B"; for every positive byte count below 1024^5
\* the unit is the one among B, KB, MB, GB, TB in which the scaled value is
\* below 1024, and the scaled value is shown with one decimal place; from
\* 1024^5 on the unit is TB and the value shown is 1024 or more (with one
\* decimal place while the byte count is exact as a float); 1536 gives
\* "1.5 KB" and 1073741824 gives "1.0 GB".
FormatLawToTB ==
    FormatReturned =>
        LET x == fmt.arg
            r == fmt.result[1]
        IN  /\ x = <<>> => r = [whole |-> 0, tenth |-> None, unit |-> "B"]
            /\ x # <<>> /\ Len(x) <= Len(size_names) =>
                  UnitFits(x, UnitOf(r)) /\ OneDecimal(x, UnitOf(r), r)
            /\ Len(x) > Len(size_names) =>
                  /\ r.unit = "TB"
                  /\ r.whole >= 1024
                  /\ Bits(x) <= 53 => OneDecimal(x, UnitOf(r), r)
            /\ Examples

\* C11 witness: format_size has returned from a byte count of 1024^5 or more,
\* in TB.
FormatLawToTBWitness ==
    /\ FormatReturned
    /\ Len(fmt.arg) > Len(size_names)
    /\ fmt.result[1].unit = "TB"

-----------------------------------------------------------------------------
(* Properties of the order of the lines *)

EntryLines == DirLines \cup FileLines

\* two entry lines of the same level
Siblings(i, j) == Parent(tree_lines[i].path) = Parent(tree_lines[j].path)

\* a line drawn by the _build_tree call of the directory d or by a call
\* below it
InSubtree(line, d) ==
    \/ line.kind = "entry" /\ Below(line.path, d)
    \/ line.kind = "more" /\ (line.path = d \/ Below(line.path, d))

\* the lines of the directories of a level come before the lines of its files
DirectoriesFirst ==
    \A i \in DirLines, j \in FileLines : Siblings(i, j) => i < j

\* among the directories and among the files of a level the names ascend,
\* upper and lower case taken as equal
NamesAscend ==
    \A i, j \in EntryLines :
        /\ i < j
        /\ Siblings(i, j)
        /\ tree_lines[i].slash = tree_lines[j].slash
        => ~StrLess(Lower(tree_lines[j].name), Lower(tree_lines[i].name))

\* the lines of the subtree of a directory follow its line without a gap
PreOrder ==
    \A i \in DirLines, j \in Lines :
        InSubtree(tree_lines[j], tree_lines[i].path) =>
            /\ i < j
            /\ \A k \in (i + 1)..j : InSubtree(tree_lines[k], tree_lines[i].path)

\* the folders of the run that have a truncation line
Truncated == {d \in Visited : \E i \in MoreLines : tree_lines[i].path = d}

\* the files of the folder d that have a line
FilesShown(d) == {e \in SurvivingFiles(d) : \E i \in FileLines : tree_lines[i].path = e}

\* the files of a truncated folder that have a line are max_files_per_folder
\* files, and no file without a line comes before one of them
FirstFilesKept ==
    Returned =>
        \A d \in Truncated :
            /\ Cardinality(FilesShown(d)) = max_files_per_folder[1]
            /\ \A e \in FilesShown(d), h \in SurvivingFiles(d) \ FilesShown(d) :
                  ~StrLess(Lower(name_of(h)), Lower(name_of(e)))

\* C12: at every level the lines of the directories come before the lines of
\* the files, whatever sort_dirs_first is; within the directories and within
\* the files the names ascend, case ignored; the files of a truncated folder
\* that have a line are the first max_files_per_folder files of that order;
\* and the line of a directory is followed at once by the lines of its
\* subtree.
SiblingOrder ==
    /\ DirectoriesFirst
    /\ NamesAscend
    /\ PreOrder
    /\ FirstFilesKept

-----------------------------------------------------------------------------
(* Properties of the glyphs *)

\* the glyph next to the icon, and the glyphs before it
LastGlyph(line) == line.prefix[Len(line.prefix)]
Stem(line) == SubSeq(line.prefix, 1, Len(line.prefix) - 1)

\* the entry lines of the level of the directory d, and its truncation line
LevelLines(d) == {i \in EntryLines : Parent(tree_lines[i].path) = d}
HasMarker(d) == \E i \in MoreLines : tree_lines[i].path = d

\* the line i is the last entry line of its level and no truncation line
\* follows at that level
IsLast(i) ==
    LET d == Parent(tree_lines[i].path)
    IN  (\A j \in LevelLines(d) : j <= i) /\ ~HasMarker(d)

\* the lines of the level of the directory d
ChildLines(d) == LevelLines(d) \cup {i \in MoreLines : tree_lines[i].path = d}

\* C13: when generate_tree has returned, an entry line carries the corner
\* when it is the last entry of its level and no truncation line follows at
\* that level, and the junction otherwise; the lines of the children of a
\* directory have the prefix of the directory's line followed by the space
\* when that line is such a last line and by the vertical otherwise; and a
\* truncation line carries the corner when its level has entry lines and the
\* junction when it has none.
GlyphRule ==
    Returned =>
        /\ \A i \in EntryLines :
              LastGlyph(tree_lines[i]) =
                  IF IsLast(i) THEN STYLES[style].corner ELSE STYLES[style].junction
        /\ \A i \in DirLines : \A j \in ChildLines(tree_lines[i].path) :
              Stem(tree_lines[j]) =
                  Append(Stem(tree_lines[i]),
                         IF IsLast(i) THEN STYLES[style].space ELSE STYLES[style].vertical)
        /\ \A i \in MoreLines :
              LastGlyph(tree_lines[i]) =
                  IF LevelLines(tree_lines[i].path) # {}
                  THEN STYLES[style].corner
                  ELSE STYLES[style].junction

\* C13 witness: a run has returned, in a style whose corner and junction and
\* whose space and vertical differ, that has drawn a last directory with
\* children, a directory with children that is not last, and a truncation
\* line.
GlyphRuleWitness ==
    /\ Returned
    /\ STYLES[style].corner # STYLES[style].junction
    /\ STYLES[style].space # STYLES[style].vertical
    /\ \E i \in DirLines : IsLast(i) /\ ChildLines(tree_lines[i].path) # {}
    /\ \E i \in DirLines : ~IsLast(i) /\ ChildLines(tree_lines[i].path) # {}
    /\ MoreLines # {}

====
